---- MODULE Spec2Model ----
(***************************************************************************)
(* Maestro Vision: the playback scheduling core (AudioService) and the     *)
(* playback session kept by the App component.                             *)
(*                                                                         *)
(* Units.  Horizontal positions x are in thousandths of the system width   *)
(* (0.015 is 15).  Times are in ticks of 1/10000 s (0.1 s is 1000), as     *)
(* exact numbers: the tempi of the model divide 1200, so every duration    *)
(* the code computes is a whole number of ticks.  An event's time is the   *)
(* number handed to Tone.Transport.schedule.                               *)
(***************************************************************************)
EXTENDS Integers, Sequences, FiniteSets, TLC

\* ------------------------------------------------------------------ bounds
MaxPages == 3
MaxIds == 3
MaxPendingPlays == 1
MaxDraw == 1

\* The longest note list of a system handed to the scheduler on its own.
MaxNotes == 3

\* The analysis queue on its own, with longer page lists.
MaxQueuePages == 4
MaxQueueIds == 4
MaxLivePages == 3

\* ------------------------------------------------------- program constants
DEFAULT_TEMPO == 100
X_THRESHOLD == 15
TicksPerSecond == 100 * 100
NoiseFloor == 100
MinDeltaX == 1
BeatsPerWidth == 20
MinStep == 1000
LegatoOverlap == 4000
FallbackBpm == 100

\* Headroom multiplier 1.2 of the visual estimate, as the fraction 12/10.
HeadroomNum == 12
HeadroomDen == 10

\* Tone.Time(...).toSeconds() of an unparseable token is NaN; every
\* comparison with NaN is false, which "NaN > x" and Math.min keep below.
NaN == -1

NoId == 0

Min2(a, b) == IF a <= b THEN a ELSE b
Max2(a, b) == IF a >= b THEN a ELSE b

\* --------------------------------------------------------------- Tone.Time
SecondsPerBeat(bpm) == (60 * TicksPerSecond) \div bpm

\* Tone.Time(token).toSeconds() at the transport's tempo: "<k>n" is a
\* 1/k note, a plain number is seconds, anything else does not parse.
ToSeconds(token, bpm) ==
    CASE token = "1n"  -> 4 * SecondsPerBeat(bpm)
      [] token = "2n"  -> 2 * SecondsPerBeat(bpm)
      [] token = "4n"  -> SecondsPerBeat(bpm)
      [] token = "8n"  -> SecondsPerBeat(bpm) \div 2
      [] token = "16n" -> SecondsPerBeat(bpm) \div 4
      [] token = "0"   -> 0
      [] token = "0.01" -> TicksPerSecond \div 100
      [] OTHER         -> NaN

\* ------------------------------------------------------ groupNotesByColumn
\* [...notes].sort((a, b) => a.x - b.x): a stable sort by x.
RECURSIVE InsertByX(_, _)
InsertByX(sorted, n) ==
    IF sorted = << >> THEN << n >>
    ELSE IF sorted[Len(sorted)].x <= n.x THEN Append(sorted, n)
    ELSE Append(InsertByX(SubSeq(sorted, 1, Len(sorted) - 1), n), sorted[Len(sorted)])

RECURSIVE SortByX(_)
SortByX(notes) ==
    IF notes = << >> THEN << >>
    ELSE InsertByX(SortByX(SubSeq(notes, 1, Len(notes) - 1)), notes[Len(notes)])

Abs(a) == IF a < 0 THEN -a ELSE a

\* A loop that forgets the column it was filling when the notes run out.
RECURSIVE GroupLoopLosing(_, _, _, _)
GroupLoopLosing(sorted, i, columns, currentColumn) ==
    IF i > Len(sorted) THEN columns
    ELSE IF Abs(sorted[i].x - currentColumn[1].x) <= X_THRESHOLD
         THEN GroupLoopLosing(sorted, i + 1, columns, Append(currentColumn, sorted[i]))
         ELSE GroupLoopLosing(sorted, i + 1, Append(columns, currentColumn), << sorted[i] >>)

\* A loop that compares each note with the note before it, not the anchor.
RECURSIVE GroupLoopChained(_, _, _, _)
GroupLoopChained(sorted, i, columns, currentColumn) ==
    IF i > Len(sorted) THEN Append(columns, currentColumn)
    ELSE IF Abs(sorted[i].x - sorted[i - 1].x) <= X_THRESHOLD
         THEN GroupLoopChained(sorted, i + 1, columns, Append(currentColumn, sorted[i]))
         ELSE GroupLoopChained(sorted, i + 1, Append(columns, currentColumn), << sorted[i] >>)

\* The loop of groupNotesByColumn from index i of the sorted notes, with the
\* closed columns and the column being filled.
RECURSIVE GroupLoop(_, _, _, _)
GroupLoop(sorted, i, columns, currentColumn) ==
    IF i > Len(sorted) THEN Append(columns, currentColumn)
    ELSE IF Abs(sorted[i].x - currentColumn[1].x) <= X_THRESHOLD
         THEN GroupLoop(sorted, i + 1, columns, Append(currentColumn, sorted[i]))
         ELSE GroupLoop(sorted, i + 1, Append(columns, currentColumn), << sorted[i] >>)

groupNotesByColumn(notes) ==
    IF Len(notes) = 0 THEN << >>
    ELSE LET sorted == SortByX(notes)
         IN  GroupLoop(sorted, 2, << >>, << sorted[1] >>)

\* system.notes.map((n, i) => ({...n, originalIndex: i})), indices from 0.
WithIndex(notes) ==
    [i \in 1..Len(notes) |->
        [pitch |-> notes[i].pitch, duration |-> notes[i].duration,
         x |-> notes[i].x, originalIndex |-> i - 1]]

\* ----------------------------------------------------------- step duration
\* Tone.Time(n.duration || "4n").toSeconds() of one member note.
NoteSeconds(n, bpm) == ToSeconds(IF n.duration = "" THEN "4n" ELSE n.duration, bpm)

\* validAudioDurations: the members' durations above the noise floor.
ValidAudioDurations(column, bpm) ==
    { NoteSeconds(column[k], bpm) :
        k \in { j \in 1..Len(column) : NoteSeconds(column[j], bpm) > NoiseFloor } }

SetMin(S) == CHOOSE m \in S : \A o \in S : m <= o

\* An estimate that falls back to a quarter note.
MinOrDefaultQuarter(valid, bpm) == IF valid # {} THEN SetMin(valid) ELSE ToSeconds("4n", bpm)

\* Math.min(...valid) when some duration is valid, else an eighth note.
MinOrDefault(valid, bpm) == IF valid # {} THEN SetMin(valid) ELSE ToSeconds("8n", bpm)

minAudioDuration(column, bpm) == MinOrDefault(ValidAudioDurations(column, bpm), bpm)

\* A visual estimate without the headroom multiplier.
estimatedVisualSecondsTight(column, nextColumn, bpm) ==
    (Max2(MinDeltaX, nextColumn[1].x - column[1].x) * BeatsPerWidth
        * SecondsPerBeat(IF bpm = 0 THEN FallbackBpm ELSE bpm))
    \div 1000

\* deltaX * 20 * secondsPerBeat * 1.2, with bpm = Transport.bpm.value || 100.
estimatedVisualSeconds(column, nextColumn, bpm) ==
    (Max2(MinDeltaX, nextColumn[1].x - column[1].x) * BeatsPerWidth
        * SecondsPerBeat(IF bpm = 0 THEN FallbackBpm ELSE bpm) * HeadroomNum)
    \div (1000 * HeadroomDen)

\* A cap that treats the last column of a system as if a column followed
\* it at the smallest distance.
CappedStepAlways(columns, colIdx, bpm, audio) ==
    IF colIdx < Len(columns)
    THEN Min2(audio, estimatedVisualSeconds(columns[colIdx], columns[colIdx + 1], bpm))
    ELSE Min2(audio, (MinDeltaX * BeatsPerWidth * SecondsPerBeat(bpm) * HeadroomNum)
                        \div (1000 * HeadroomDen))

\* Math.min(minAudioDuration, visualCap): columns[colIdx + 1] is undefined
\* for the last column of a system, the visual cap stays Infinity and the
\* audio estimate stands.
CappedStep(columns, colIdx, bpm, audio) ==
    IF colIdx < Len(columns)
    THEN Min2(audio, estimatedVisualSeconds(columns[colIdx], columns[colIdx + 1], bpm))
    ELSE audio

\* A step duration without the floor.
stepDurationUnfloored(columns, colIdx, bpm) ==
    CappedStep(columns, colIdx, bpm, minAudioDuration(columns[colIdx], bpm))

stepDuration(columns, colIdx, bpm) ==
    Max2(MinStep, CappedStep(columns, colIdx, bpm, minAudioDuration(columns[colIdx], bpm)))

\* ------------------------------------------------------------ schedulePage
\* An event that reports the last member of the column, not the first.
TransportEventLastIndex(pageId, sysIdx, column, step, time) ==
    [time |-> time, pageId |-> pageId, sysIdx |-> sysIdx,
     noteIdx |-> column[Len(column)].originalIndex, notes |-> column, step |-> step]

\* One Transport event per column: its time, and what its callback does
\* when it fires (the notes it plays, the cursor position it reports).
TransportEvent(pageId, sysIdx, column, step, time) ==
    [time |-> time, pageId |-> pageId, sysIdx |-> sysIdx,
     noteIdx |-> column[1].originalIndex, notes |-> column, step |-> step]

\* ------------------------------------------------- the callback's sounds
\* String(note.pitch).trim().toUpperCase(), 'REST' for a missing pitch, on
\* the pitch tokens of the model: lower-case letters become capitals, the
\* flat sign "b" included.
NormalizePitch(p) ==
    CASE p = ""     -> "REST"
      [] p = "rest" -> "REST"
      [] p = "c4"   -> "C4"
      [] p = "Bb4"  -> "BB4"
      [] OTHER      -> p

\* The strings /^[A-G][#b]?[0-8]$/ matches.
PitchPattern ==
    { l \o a \o o : l \in {"A", "B", "C", "D", "E", "F", "G"}, a \in {"", "#", "b"},
                    o \in {"0", "1", "2", "3", "4", "5", "6", "7", "8"} }

\* A test that only knows the rest sentinel.
IsRestSentinelOnly(p) == NormalizePitch(p) = "REST"

\* isRest: the normalized pitch is 'REST' or does not match the pattern.
IsRest(p) == NormalizePitch(p) = "REST" \/ NormalizePitch(p) \notin PitchPattern

\* Math.max(noteDuration, stepDuration) + 0.4; NaN when noteDuration is.
PlayDuration(noteDuration, step) ==
    IF noteDuration = NaN THEN NaN ELSE Max2(noteDuration, step) + LegatoOverlap

\* sampler.triggerAttackRelease(pitch, playDuration, time) for one note;
\* the duration is converted at the tempo of the moment the event fires.
SoundOf(note, e, b) ==
    [pitch |-> NormalizePitch(note.pitch), noteIdx |-> note.originalIndex,
     playDuration |-> PlayDuration(ToSeconds(note.duration, b), e.step), time |-> e.time]

SoundsOf(audible, e, b) == [k \in 1..Len(audible) |-> SoundOf(audible[k], e, b)]

\* The sound triggers the callback of event e issues when it fires at tempo b.
Sounds(e, b) == SoundsOf(SelectSeq(e.notes, LAMBDA n : ~IsRest(n.pitch)), e, b)

\* What the callback of event e hands to onNotePlay through Tone.Draw.
CursorOf(e) == [pageId |-> e.pageId, sysIdx |-> e.sysIdx, noteIdx |-> e.noteIdx, time |-> e.time]

\* A column whose event is registered one step late.
ScheduleColumnLate(pageId, sysIdx, column, step, acc) ==
    [events      |-> Append(acc.events,
                            TransportEvent(pageId, sysIdx, column, step,
                                           acc.currentTime + step)),
     currentTime |-> acc.currentTime + step]

\* The body of columns.forEach for one column: Transport.schedule at
\* currentTime, then currentTime += stepDuration.  acc holds the events
\* registered so far and currentTime.
ScheduleColumn(pageId, sysIdx, column, step, acc) ==
    [events      |-> Append(acc.events,
                            TransportEvent(pageId, sysIdx, column, step, acc.currentTime)),
     currentTime |-> acc.currentTime + step]

\* columns.forEach from column colIdx on, without the advance after the
\* last column of a system.
RECURSIVE ScheduleColumnsShort(_, _, _, _, _, _)
ScheduleColumnsShort(pageId, sysIdx, columns, colIdx, acc, bpm) ==
    IF colIdx > Len(columns) THEN acc
    ELSE IF colIdx = Len(columns)
         THEN [events |-> ScheduleColumn(pageId, sysIdx, columns[colIdx],
                                         stepDuration(columns, colIdx, bpm), acc).events,
               currentTime |-> acc.currentTime]
    ELSE ScheduleColumnsShort(pageId, sysIdx, columns, colIdx + 1,
                              ScheduleColumn(pageId, sysIdx, columns[colIdx],
                                             stepDuration(columns, colIdx, bpm), acc),
                              bpm)

\* columns.forEach from column colIdx on.
RECURSIVE ScheduleColumns(_, _, _, _, _, _)
ScheduleColumns(pageId, sysIdx, columns, colIdx, acc, bpm) ==
    IF colIdx > Len(columns) THEN acc
    ELSE ScheduleColumns(pageId, sysIdx, columns, colIdx + 1,
                         ScheduleColumn(pageId, sysIdx, columns[colIdx],
                                        stepDuration(columns, colIdx, bpm), acc),
                         bpm)

\* systems.forEach that lets a step pass after the last system.
RECURSIVE ScheduleSystemsPadded(_, _, _, _, _)
ScheduleSystemsPadded(pageId, systems, k, acc, bpm) ==
    IF k > Len(systems) THEN [acc EXCEPT !.currentTime = @ + MinStep]
    ELSE ScheduleSystemsPadded(pageId, systems, k + 1,
                               ScheduleColumns(pageId, k - 1,
                                               groupNotesByColumn(WithIndex(systems[k].notes)),
                                               1, acc, bpm),
                               bpm)

\* systems.forEach from system k on (sysIdx = k - 1).
RECURSIVE ScheduleSystems(_, _, _, _, _)
ScheduleSystems(pageId, systems, k, acc, bpm) ==
    IF k > Len(systems) THEN acc
    ELSE ScheduleSystems(pageId, systems, k + 1,
                         ScheduleColumns(pageId, k - 1,
                                         groupNotesByColumn(WithIndex(systems[k].notes)),
                                         1, acc, bpm),
                         bpm)

\* ------------------------------------------------------- recognition data
\* The analyses the recognition collaborator may return (SheetAnalysis): a
\* page of one system whose three notes group into a chord and a single
\* note, and a page without systems and without a usable tempo.
Note(p, d, x) == [pitch |-> p, duration |-> d, x |-> x]

Analyses ==
    << [tempo |-> 120,
        systems |-> << [notes |-> << Note("C4", "4n", 100), Note("E4", "4n", 110),
                                     Note("G4", "1n", 500) >>] >>],
       [tempo |-> 0, systems |-> << >>] >>

\* Values the tempo slider of Controls hands to onTempoChange.
SliderTempos == {60}

\* ------------------------------------------------------------------ state
VARIABLES
    pages,                \* App: SheetPage[], each [id, status, data, errorMsg];
                          \*   data is an index into Analyses, 0 when absent
    currentPageIndex,     \* App: index of the displayed page, from 0
    isPlaying,            \* App state
    playingRef,           \* App: playingRef.current
    currentSystemIndex,   \* App: cursor
    currentNoteIndex,     \* App: cursor
    tempo,                \* App state
    isAudioReady,         \* App state
    scheduledUpToPageId,  \* App: last page scheduled, NoId for null
    isLoaded,             \* AudioService.isLoaded
    pageEndTimes,         \* AudioService.pageEndTimes: page id -> end time
    bpm,                  \* Tone.Transport.bpm.value
    transportState,       \* Tone.Transport.state
    position,             \* Tone.Transport: events before this time have fired
    timeline,             \* Tone.Transport: the scheduled events, in order
    drawQueue,            \* Tone.Draw: cursor callbacks waiting for their frame;
                          \*   orphan (history) marks those a Stop found waiting
    inflight,             \* ids of the pages whose analysis request is pending
    pendingPlays,         \* startPlayback calls waiting in "await startContext()",
                          \*   each with the pages and index its closure holds
    nextId,               \* ids handed out so far
    crashed,              \* an updater threw during render: the App is gone
    renderPending,        \* state was set: React has still to render and run
                          \*   the effects
    schedLog,             \* history: the schedulePage calls since the timeline
                          \*   was last cleared, [pageId, index, startTime, endTime, by, bpm, data]
    lastOp,               \* history: the step taken last, [op, wasPlaying]
    arg,                  \* the arguments of the AudioService call under
                          \*   examination (SchedulerSpec only)
    ret                   \* what that call returned (SchedulerSpec only)

vars == << pages, currentPageIndex, isPlaying, playingRef, currentSystemIndex,
           currentNoteIndex, tempo, isAudioReady, scheduledUpToPageId, isLoaded,
           pageEndTimes, bpm, transportState, position, timeline, drawQueue,
           inflight, pendingPlays, nextId, crashed, renderPending, schedLog, lastOp,
           arg, ret >>

\* The state as one record, so that handlers are functions of it.
Cur ==
    [pages |-> pages, currentPageIndex |-> currentPageIndex, isPlaying |-> isPlaying,
     playingRef |-> playingRef, currentSystemIndex |-> currentSystemIndex,
     currentNoteIndex |-> currentNoteIndex, tempo |-> tempo,
     isAudioReady |-> isAudioReady, scheduledUpToPageId |-> scheduledUpToPageId,
     isLoaded |-> isLoaded, pageEndTimes |-> pageEndTimes, bpm |-> bpm,
     transportState |-> transportState, position |-> position, timeline |-> timeline,
     drawQueue |-> drawQueue, inflight |-> inflight, pendingPlays |-> pendingPlays,
     nextId |-> nextId, crashed |-> crashed, renderPending |-> renderPending,
     schedLog |-> schedLog, lastOp |-> lastOp, arg |-> arg, ret |-> ret]

Set(s) ==
    /\ pages' = s.pages
    /\ currentPageIndex' = s.currentPageIndex
    /\ isPlaying' = s.isPlaying
    /\ playingRef' = s.playingRef
    /\ currentSystemIndex' = s.currentSystemIndex
    /\ currentNoteIndex' = s.currentNoteIndex
    /\ tempo' = s.tempo
    /\ isAudioReady' = s.isAudioReady
    /\ scheduledUpToPageId' = s.scheduledUpToPageId
    /\ isLoaded' = s.isLoaded
    /\ pageEndTimes' = s.pageEndTimes
    /\ bpm' = s.bpm
    /\ transportState' = s.transportState
    /\ position' = s.position
    /\ timeline' = s.timeline
    /\ drawQueue' = s.drawQueue
    /\ inflight' = s.inflight
    /\ pendingPlays' = s.pendingPlays
    /\ nextId' = s.nextId
    /\ crashed' = s.crashed
    /\ renderPending' = s.renderPending
    /\ schedLog' = s.schedLog
    /\ lastOp' = s.lastOp
    /\ arg' = s.arg
    /\ ret' = s.ret

\* pages.findIndex(p => p.id === id): an index from 0, or -1.
findIndex(ps, id) ==
    IF \E i \in 1..Len(ps) : ps[i].id = id
    THEN (CHOOSE i \in 1..Len(ps) : ps[i].id = id /\ \A j \in 1..(i - 1) : ps[j].id # id) - 1
    ELSE -1

\* pages[i] for an index from 0 is defined.
HasPage(ps, i) == 0 <= i /\ i < Len(ps)

IsReady(ps, i) == HasPage(ps, i) /\ ps[i + 1].status = "ready" /\ ps[i + 1].data # 0

\* ----------------------------------------------------------- AudioService
\* What schedulePage leaves behind: r holds the events it registered and
\* the final currentTime, which it records as the page's end time.
Registered(s, page, startTime, by, r) ==
    [s   |-> [s EXCEPT !.timeline = @ \o r.events,
                       !.pageEndTimes = (page.id :> r.currentTime) @@ @,
                       !.schedLog = Append(@, [pageId |-> page.id, index |-> by.index,
                                               startTime |-> startTime,
                                               endTime |-> r.currentTime, by |-> by.caller,
                                               bpm |-> s.bpm, data |-> page.data])],
     ret |-> r.currentTime]

\* A schedulePage that goes on without analysis data, scheduling nothing
\* and recording the page's end time.
schedulePageUnguarded(s, page, startTime, by) ==
    IF ~s.isLoaded THEN [s |-> s, ret |-> startTime]
    ELSE IF page.data = 0
         THEN Registered(s, page, startTime, by,
                         [events |-> << >>, currentTime |-> startTime])
    ELSE Registered(s, page, startTime, by,
                    ScheduleSystems(page.id, Analyses[page.data].systems, 1,
                                    [events |-> << >>, currentTime |-> startTime], s.bpm))

\* A schedulePage that counts its times from the Transport's position.
schedulePageFromPosition(s, page, startTime, by) ==
    IF ~s.isLoaded \/ page.data = 0 THEN [s |-> s, ret |-> startTime]
    ELSE Registered(s, page, startTime, by,
                    ScheduleSystems(page.id, Analyses[page.data].systems, 1,
                                    [events |-> << >>,
                                     currentTime |-> startTime + s.position], s.bpm))

\* schedulePage(page, startTime, onNotePlay): the state after the call and
\* the returned end time.  this.sampler is set from the first effect on.
\* by names the caller and the page's index there, for the history only.
schedulePage(s, page, startTime, by) ==
    IF ~s.isLoaded \/ page.data = 0 THEN [s |-> s, ret |-> startTime]
    ELSE Registered(s, page, startTime, by,
                    ScheduleSystems(page.id, Analyses[page.data].systems, 1,
                                    [events |-> << >>, currentTime |-> startTime], s.bpm))

\* getPageEndTime(id) !== undefined.
HasPageEndTime(s, id) == id \in DOMAIN s.pageEndTimes

\* A stop() that keeps the recorded page end times.
audioStopKeepingEndTimes(s) ==
    [s EXCEPT !.transportState = "stopped", !.position = 0,
              !.timeline = << >>, !.schedLog = << >>]

\* stop(): Transport.stop(); Transport.cancel(); pageEndTimes.clear().
audioStop(s) ==
    [s EXCEPT !.transportState = "stopped", !.position = 0,
              !.timeline = << >>, !.schedLog = << >>, !.pageEndTimes = << >>]

\* pause(): Transport.pause().  No handler of the App calls it.
audioPause(s) ==
    [s EXCEPT !.transportState = IF @ = "started" THEN "paused" ELSE @]

\* start(): Transport.start() unless already started.
audioStart(s) == [s EXCEPT !.transportState = "started"]

\* ------------------------------------------------------------ App effects
\* useEffect(() => audioService.setTempo(tempo), [tempo]).
TempoEffect(s) == [s EXCEPT !.bpm = s.tempo]

\* A queue without the limit of one analysis at a time.
QueuePickUnlimited(s) ==
    IF HasPage(s.pages, s.currentPageIndex)
       /\ s.pages[s.currentPageIndex + 1].status = "pending"
    THEN s.currentPageIndex
    ELSE IF HasPage(s.pages, s.currentPageIndex + 1)
            /\ s.pages[s.currentPageIndex + 2].status = "pending"
         THEN s.currentPageIndex + 1
    ELSE IF \E i \in 1..Len(s.pages) : s.pages[i].status = "pending"
         THEN (CHOOSE i \in 1..Len(s.pages) :
                  /\ s.pages[i].status = "pending"
                  /\ \A j \in 1..(i - 1) : s.pages[j].status # "pending") - 1
    ELSE -1

\* A queue that always takes the first pending page of the list.
QueuePickFifo(s) ==
    IF \E i \in 1..Len(s.pages) : s.pages[i].status = "analyzing" THEN -1
    ELSE IF \E i \in 1..Len(s.pages) : s.pages[i].status = "pending"
         THEN (CHOOSE i \in 1..Len(s.pages) :
                  /\ s.pages[i].status = "pending"
                  /\ \A j \in 1..(i - 1) : s.pages[j].status # "pending") - 1
    ELSE -1

\* A queue that takes the current page at once, whatever is being analyzed.
QueuePickEager(s) ==
    IF HasPage(s.pages, s.currentPageIndex)
       /\ s.pages[s.currentPageIndex + 1].status = "pending"
    THEN s.currentPageIndex
    ELSE IF \E i \in 1..Len(s.pages) : s.pages[i].status = "analyzing" THEN -1
    ELSE IF HasPage(s.pages, s.currentPageIndex + 1)
            /\ s.pages[s.currentPageIndex + 2].status = "pending"
         THEN s.currentPageIndex + 1
    ELSE IF \E i \in 1..Len(s.pages) : s.pages[i].status = "pending"
         THEN (CHOOSE i \in 1..Len(s.pages) :
                  /\ s.pages[i].status = "pending"
                  /\ \A j \in 1..(i - 1) : s.pages[j].status # "pending") - 1
    ELSE -1

\* The page the analysis queue picks (an index from 0), -1 when it picks none.
QueuePick(s) ==
    IF \E i \in 1..Len(s.pages) : s.pages[i].status = "analyzing" THEN -1
    ELSE IF HasPage(s.pages, s.currentPageIndex)
            /\ s.pages[s.currentPageIndex + 1].status = "pending"
         THEN s.currentPageIndex
    ELSE IF HasPage(s.pages, s.currentPageIndex + 1)
            /\ s.pages[s.currentPageIndex + 2].status = "pending"
         THEN s.currentPageIndex + 1
    ELSE IF \E i \in 1..Len(s.pages) : s.pages[i].status = "pending"
         THEN (CHOOSE i \in 1..Len(s.pages) :
                  /\ s.pages[i].status = "pending"
                  /\ \A j \in 1..(i - 1) : s.pages[j].status # "pending") - 1
    ELSE -1

\* processPage(pages[i]) up to its first await: the page is marked
\* analyzing and its request is sent.
StartAnalysis(s, i) ==
    IF i = -1 THEN s
    ELSE [s EXCEPT !.pages[i + 1].status = "analyzing",
                   !.inflight = @ \cup {s.pages[i + 1].id}]

\* The analysis queue effect.
AnalysisQueueEffect(s) == StartAnalysis(s, QueuePick(s))

\* A scheduler effect that takes the last-scheduled page itself.
AppendIndexSame(s) ==
    IF ~s.isPlaying \/ s.scheduledUpToPageId = NoId THEN -1
    ELSE IF findIndex(s.pages, s.scheduledUpToPageId) = -1 THEN -1
    ELSE IF /\ IsReady(s.pages, findIndex(s.pages, s.scheduledUpToPageId))
            /\ HasPageEndTime(s, s.scheduledUpToPageId)
         THEN findIndex(s.pages, s.scheduledUpToPageId)
    ELSE -1

\* The page the dynamic playback scheduler appends (an index from 0), -1
\* when the effect returns without scheduling.
AppendIndex(s) ==
    IF ~s.isPlaying \/ s.scheduledUpToPageId = NoId THEN -1
    ELSE IF findIndex(s.pages, s.scheduledUpToPageId) = -1 THEN -1
    ELSE IF /\ IsReady(s.pages, findIndex(s.pages, s.scheduledUpToPageId) + 1)
            /\ HasPageEndTime(s, s.scheduledUpToPageId)
         THEN findIndex(s.pages, s.scheduledUpToPageId) + 1
    ELSE -1

\* An append that schedules the next page from time 0.
AppendPageFromZero(s, i) ==
    IF i = -1 THEN s
    ELSE [schedulePage(s, s.pages[i + 1], 0, [caller |-> "append", index |-> i]).s
             EXCEPT !.scheduledUpToPageId = s.pages[i + 1].id]

\* schedulePage(nextPage, prevEndTime, ...); setScheduledUpToPageId(nextPage.id).
AppendPage(s, i) ==
    IF i = -1 THEN s
    ELSE [schedulePage(s, s.pages[i + 1], s.pageEndTimes[s.scheduledUpToPageId],
                     [caller |-> "append", index |-> i]).s
             EXCEPT !.scheduledUpToPageId = s.pages[i + 1].id]

\* The dynamic playback scheduler effect.
DynamicSchedulerEffect(s) == AppendPage(s, AppendIndex(s))

\* The effects of one render, in the order the component declares them.
\* Each effect's body is guarded by its own dependencies, so running it
\* after a render that left them alone changes nothing.
EffectsPass(s) == DynamicSchedulerEffect(AnalysisQueueEffect(TempoEffect(s)))

\* ----------------------------------------------------------- App handlers
\* A Stop that flips the playing flag instead of clearing it.
handleStopToggling(s) ==
    [audioStop([s EXCEPT !.isPlaying = ~@, !.playingRef = ~@,
                         !.scheduledUpToPageId = NoId])
        EXCEPT !.currentSystemIndex = -1, !.currentNoteIndex = -1,
               !.drawQueue = [k \in 1..Len(@) |-> [@[k] EXCEPT !.orphan = TRUE]]]

\* handleStop().
handleStop(s) ==
    [audioStop([s EXCEPT !.isPlaying = FALSE, !.playingRef = FALSE,
                         !.scheduledUpToPageId = NoId])
        EXCEPT !.currentSystemIndex = -1, !.currentNoteIndex = -1,
               !.drawQueue = [k \in 1..Len(@) |-> [@[k] EXCEPT !.orphan = TRUE]]]

\* The for loop of startPlayback over the pages of its closure, from index i
\* (from 0), with accumulatedTime and lastScheduledId.
RECURSIVE PlayLoop(_, _, _, _, _)
RECURSIVE PlayLoopNext(_, _, _)

\* A loop that passes over a page that is not ready instead of ending at it.
PlayLoopSkipping(s, ps, i, accumulatedTime, lastScheduledId) ==
    IF i >= Len(ps) THEN [s |-> s, last |-> lastScheduledId]
    ELSE IF ps[i + 1].status = "ready" /\ ps[i + 1].data # 0
         THEN PlayLoopNext(ps, i, schedulePage(s, ps[i + 1], accumulatedTime,
                                                [caller |-> "play", index |-> i]))
         ELSE PlayLoop(s, ps, i + 1, accumulatedTime, lastScheduledId)

PlayLoop(s, ps, i, accumulatedTime, lastScheduledId) ==
    IF i >= Len(ps) THEN [s |-> s, last |-> lastScheduledId]
    ELSE IF ps[i + 1].status = "ready" /\ ps[i + 1].data # 0
         THEN PlayLoopNext(ps, i, schedulePage(s, ps[i + 1], accumulatedTime,
                                                [caller |-> "play", index |-> i]))
         ELSE [s |-> s, last |-> lastScheduledId]

\* A loop step that forgets the returned end time.
PlayLoopNextFromZero(ps, i, r) == PlayLoop(r.s, ps, i + 1, 0, ps[i + 1].id)

\* accumulatedTime = schedulePage(...); lastScheduledId = p.id; i++.
PlayLoopNext(ps, i, r) == PlayLoop(r.s, ps, i + 1, r.ret, ps[i + 1].id)

\* setScheduledUpToPageId(lastScheduledId); audioService.start().
PlayStarted(r) == audioStart([r.s EXCEPT !.scheduledUpToPageId = r.last])

\* A startPlayback without the check of the start page.
startPlaybackUnguarded(s, snap) ==
    PlayStarted(PlayLoop([s EXCEPT !.isPlaying = TRUE, !.playingRef = TRUE,
                                   !.transportState = "stopped", !.position = 0,
                                   !.timeline = << >>, !.schedLog = << >>],
                         snap.pages, snap.currentPageIndex, 0, NoId))

\* startPlayback after "await audioService.startContext()"; snap holds the
\* pages and currentPageIndex of the render the call was made in.
startPlayback(s, snap) ==
    IF ~IsReady(snap.pages, snap.currentPageIndex) THEN s
    ELSE PlayStarted(PlayLoop([s EXCEPT !.isPlaying = TRUE, !.playingRef = TRUE,
                                        !.transportState = "stopped", !.position = 0,
                                        !.timeline = << >>, !.schedLog = << >>],
                              snap.pages, snap.currentPageIndex, 0, NoId))

\* A listener that never moves the displayed page.
FollowPageNever(s, idx) == s

\* The playback-update listener: the displayed page follows the page id.
FollowPage(s, idx) ==
    [s EXCEPT !.currentPageIndex = IF idx # -1 /\ idx # @ THEN idx ELSE @]

\* A callback that does not look at playingRef.
onNotePlayCallbackUnguarded(s, pageId, sysIdx, noteIdx) ==
    FollowPage([s EXCEPT !.currentSystemIndex = sysIdx, !.currentNoteIndex = noteIdx],
               findIndex(s.pages, pageId))

\* onNotePlayCallback and the playback-update event it dispatches.
onNotePlayCallback(s, pageId, sysIdx, noteIdx) ==
    IF ~s.playingRef THEN s
    ELSE FollowPage([s EXCEPT !.currentSystemIndex = sysIdx,
                              !.currentNoteIndex = noteIdx],
                    findIndex(s.pages, pageId))

handleNextPage(s) ==
    IF s.currentPageIndex < Len(s.pages) - 1
    THEN [handleStop(s) EXCEPT !.currentPageIndex = @ + 1]
    ELSE s

handlePrevPage(s) ==
    IF s.currentPageIndex > 0
    THEN [handleStop(s) EXCEPT !.currentPageIndex = @ - 1]
    ELSE s

\* A page tab that never stops the playback.
tabClickWithoutStop(s, idx) == [s EXCEPT !.currentPageIndex = idx]

\* onClick of the page tab of index idx (from 0).
tabClick(s, idx) ==
    IF ~s.isPlaying THEN [s EXCEPT !.currentPageIndex = idx]
    ELSE [handleStop(s) EXCEPT !.currentPageIndex = idx]

\* onClick of Clear All.
clearAll(s) == [handleStop(s) EXCEPT !.pages = << >>, !.currentPageIndex = 0]

\* A success updater that marks the page ready and drops the analysis.
MarkReadyWithoutData(s, id, a) ==
    [s EXCEPT !.pages = [i \in 1..Len(@) |->
                            IF @[i].id = id THEN [@[i] EXCEPT !.status = "ready"]
                            ELSE @[i]]]

\* The updater of processPage's success branch, on a non-empty list.
MarkReady(s, id, a) ==
    [s EXCEPT !.pages = [i \in 1..Len(@) |->
                            IF @[i].id = id
                            THEN [@[i] EXCEPT !.status = "ready", !.data = a]
                            ELSE @[i]],
              !.tempo = IF id = s.pages[1].id /\ Analyses[a].tempo # 0
                        THEN Analyses[a].tempo ELSE @]

\* A catch branch that leaves the page as it was.
MarkErrorStuck(s, id) == s

\* The updater of processPage's catch branch.
MarkError(s, id) ==
    [s EXCEPT !.pages = [i \in 1..Len(@) |->
                            IF @[i].id = id
                            THEN [@[i] EXCEPT !.status = "error",
                                              !.errorMsg = "Analysis failed"]
                            ELSE @[i]]]

\* handleFilesSelected: n new pending pages, with fresh ids.
NewPages(first, n) ==
    [k \in 1..n |-> [id |-> first + k, status |-> "pending", data |-> 0, errorMsg |-> ""]]

filesSelected(s, n) == [s EXCEPT !.pages = @ \o NewPages(s.nextId, n), !.nextId = @ + n]

\* ---------------------------------------------------------------- actions
\* No AudioService call is under examination in the App's own behaviours.
NoCall == [kind |-> "none"]
NoReturn == [op |-> "none"]

Init ==
    /\ pages = << >>
    /\ currentPageIndex = 0
    /\ isPlaying = FALSE
    /\ playingRef = FALSE
    /\ currentSystemIndex = -1
    /\ currentNoteIndex = -1
    /\ tempo = DEFAULT_TEMPO
    /\ isAudioReady = FALSE
    /\ scheduledUpToPageId = NoId
    /\ isLoaded = FALSE
    /\ pageEndTimes = << >>
    /\ bpm = DEFAULT_TEMPO
    /\ transportState = "stopped"
    /\ position = 0
    /\ timeline = << >>
    /\ drawQueue = << >>
    /\ inflight = {}
    /\ pendingPlays = << >>
    /\ nextId = 0
    /\ crashed = FALSE
    /\ renderPending = FALSE
    /\ schedLog = << >>
    /\ lastOp = [op |-> "Init", wasPlaying |-> FALSE]
    /\ arg = NoCall
    /\ ret = NoReturn

\* An event is handled when the App is mounted and no render is pending:
\* React renders and runs the effects of a state change before the next
\* event is handled.
Idle == ~crashed /\ ~renderPending

\* What the component holds in useState: a change of it causes a render.
ReactState(s) ==
    << s.pages, s.currentPageIndex, s.isPlaying, s.currentSystemIndex,
       s.currentNoteIndex, s.tempo, s.isAudioReady, s.scheduledUpToPageId >>

Op(name) == [op |-> name, wasPlaying |-> isPlaying]

\* A handler ran and left state t: a render follows if it set state.
Commit(name, t) ==
    Set([t EXCEPT !.renderPending = (ReactState(t) # ReactState(Cur)),
                  !.lastOp = Op(name)])

\* A render and its effects: state t; another render follows if they set state.
Settle(name, t) ==
    Set([t EXCEPT !.renderPending = (ReactState(t) # ReactState(Cur)),
                  !.lastOp = Op(name)])

RunEffects ==
    /\ ~crashed
    /\ renderPending
    /\ Settle(IF AppendIndex(Cur) # -1 THEN "Append" ELSE "RunEffects", EffectsPass(Cur))

\* The sampler's onload: initialize() resolves and the App marks audio ready.
AudioLoaded ==
    /\ Idle
    /\ ~isLoaded
    /\ Commit("AudioLoaded", [Cur EXCEPT !.isLoaded = TRUE, !.isAudioReady = TRUE])

FilesSelected(n) ==
    /\ Idle
    /\ Len(pages) + n <= MaxPages
    /\ nextId + n <= MaxIds
    /\ Commit("FilesSelected", filesSelected(Cur, n))

\* processPage after analyzeSheetMusic resolved with Analyses[a].  The
\* updater reads updated[0].id, which throws on an empty list.
AnalysisSuccess(id, a) ==
    /\ Idle
    /\ id \in inflight
    /\ IF pages = << >>
       THEN Set([Cur EXCEPT !.inflight = @ \ {id}, !.crashed = TRUE,
                          !.lastOp = Op("AnalysisSuccess")])
       ELSE Commit("AnalysisSuccess", MarkReady([Cur EXCEPT !.inflight = @ \ {id}], id, a))

\* processPage's catch: compressImage or analyzeSheetMusic rejected.
AnalysisFailure(id) ==
    /\ Idle
    /\ id \in inflight
    /\ Commit("AnalysisFailure", MarkError([Cur EXCEPT !.inflight = @ \ {id}], id))

\* handlePlayPause while playing: handleStop().
PauseClick ==
    /\ Idle
    /\ isAudioReady
    /\ isPlaying
    /\ Commit("PauseClick", handleStop(Cur))

\* handlePlayPause while not playing: startPlayback() up to its await.
\* (Controls also disables the button while the active page is not ready;
\* startPlayback carries its own guard and is modelled as callable anyhow.)
PlayClick ==
    /\ Idle
    /\ isAudioReady
    /\ ~isPlaying
    /\ Len(pendingPlays) < MaxPendingPlays
    /\ Commit("PlayClick",
              [Cur EXCEPT !.pendingPlays =
                  Append(@, [pages |-> pages, currentPageIndex |-> currentPageIndex])])

\* Tone.start() resolved: the oldest waiting startPlayback goes on.
PlayResume ==
    /\ Idle
    /\ pendingPlays # << >>
    /\ Commit(IF IsReady(Head(pendingPlays).pages, Head(pendingPlays).currentPageIndex)
              THEN "PlayResume" ELSE "PlayRefused",
              startPlayback([Cur EXCEPT !.pendingPlays = Tail(@)], Head(pendingPlays)))

\* The Stop button: onStop = handleStop.
StopClick ==
    /\ Idle
    /\ Commit("StopClick", handleStop(Cur))

\* The player view, with tabs and page arrows, shows when a page is active.
PlayerShown == Len(pages) > 0 /\ HasPage(pages, currentPageIndex)

NextPage ==
    /\ Idle
    /\ PlayerShown
    /\ Commit("NextPage", handleNextPage(Cur))

PrevPage ==
    /\ Idle
    /\ PlayerShown
    /\ Commit("PrevPage", handlePrevPage(Cur))

TabClick(idx) ==
    /\ Idle
    /\ PlayerShown
    /\ HasPage(pages, idx)
    /\ Commit("TabClick", tabClick(Cur, idx))

ClearAll ==
    /\ Idle
    /\ Len(pages) > 0
    /\ Commit("ClearAll", clearAll(Cur))

\* disabled={!isReady || !isAudioReady} of Controls is off.
ControlsEnabled ==
    /\ isAudioReady
    /\ HasPage(pages, currentPageIndex)
    /\ pages[currentPageIndex + 1].status = "ready"

\* onTempoChange = setTempo, from the slider, which Controls disables while
\* the active page is not ready.
TempoChange(v) ==
    /\ Idle
    /\ ControlsEnabled
    /\ v # tempo
    /\ Commit("TempoChange", [Cur EXCEPT !.tempo = v])

\* The times of the events still to fire.
Due == { timeline[k].time : k \in { j \in 1..Len(timeline) : timeline[j].time >= position } }

\* The first event of the timeline at time t.
EventAt(t) ==
    timeline[CHOOSE j \in 1..Len(timeline) :
                /\ timeline[j].time = t
                /\ \A i \in 1..(j - 1) : timeline[i].time # t]

\* What the callback of schedulePage hands to Tone.Draw.schedule.
DrawEvent(e) ==
    [pageId |-> e.pageId, sysIdx |-> e.sysIdx, noteIdx |-> e.noteIdx, orphan |-> FALSE]

\* The started Transport reaches its next event: the callback of schedulePage
\* plays the column's notes and hands the cursor update to Tone.Draw.
TransportFire ==
    /\ ~renderPending
    /\ transportState = "started"
    /\ Due # {}
    /\ Len(drawQueue) < MaxDraw
    /\ Set([Cur EXCEPT !.position = SetMin(Due) + 1,
                       !.drawQueue = Append(@, DrawEvent(EventAt(SetMin(Due)))),
                       !.lastOp = Op("TransportFire")])

\* Tone.Draw runs the oldest waiting callback in an animation frame.
DrawFire ==
    /\ Idle
    /\ drawQueue # << >>
    /\ Commit("DrawFire", onNotePlayCallback([Cur EXCEPT !.drawQueue = Tail(@)],
                                 Head(drawQueue).pageId, Head(drawQueue).sysIdx,
                                 Head(drawQueue).noteIdx))

Next ==
    \/ RunEffects
    \/ AudioLoaded
    \/ \E n \in 1..MaxPages : FilesSelected(n)
    \/ \E id \in inflight, a \in 1..Len(Analyses) : AnalysisSuccess(id, a)
    \/ \E id \in inflight : AnalysisFailure(id)
    \/ PlayClick
    \/ PauseClick
    \/ PlayResume
    \/ StopClick
    \/ NextPage
    \/ PrevPage
    \/ \E idx \in 0..(MaxPages - 1) : TabClick(idx)
    \/ ClearAll
    \/ \E v \in SliderTempos : TempoChange(v)
    \/ TransportFire
    \/ DrawFire

Spec == Init /\ [][Next]_vars

\* ------------------------------------------------------- the queue alone
\* The App while the piano samples are still loading: pages are uploaded,
\* browsed, analyzed and cleared, and nothing can be played.
QueueUpload(n) ==
    /\ Idle
    /\ Len(pages) + n <= MaxQueuePages
    /\ nextId + n <= MaxQueueIds
    /\ Commit("FilesSelected", filesSelected(Cur, n))

QueueNext ==
    \/ RunEffects
    \/ \E n \in 1..MaxQueuePages : QueueUpload(n)
    \/ \E id \in inflight, a \in 1..Len(Analyses) : AnalysisSuccess(id, a)
    \/ \E id \in inflight : AnalysisFailure(id)
    \/ NextPage
    \/ PrevPage
    \/ \E idx \in 0..(MaxQueuePages - 1) : TabClick(idx)
    \/ ClearAll

QueueSpec == Init /\ [][QueueNext]_vars

\* The queue while the page list is never cleared and every request is
\* answered: a render that is due takes place, and a request in flight
\* resolves or rejects at some time.
Resolve ==
    \E id \in inflight :
       \/ \E a \in 1..Len(Analyses) : AnalysisSuccess(id, a)
       \/ AnalysisFailure(id)

QueueLiveUpload(n) ==
    /\ Idle
    /\ Len(pages) + n <= MaxLivePages
    /\ Commit("FilesSelected", filesSelected(Cur, n))

QueueLiveNext ==
    \/ RunEffects
    \/ \E n \in 1..MaxLivePages : QueueLiveUpload(n)
    \/ \E id \in inflight, a \in 1..Len(Analyses) : AnalysisSuccess(id, a)
    \/ \E id \in inflight : AnalysisFailure(id)
    \/ NextPage
    \/ PrevPage
    \/ \E idx \in 0..(MaxLivePages - 1) : TabClick(idx)

QueueLiveSpec ==
    Init /\ [][QueueLiveNext]_vars /\ WF_vars(RunEffects) /\ SF_vars(Resolve)

\* ------------------------------------------------ the App with its renders
\* The whole App as the user can drive it: Controls disables Play, Pause
\* and Stop while the active page is not ready (line 679, 716, 737).
PlayButton == ControlsEnabled /\ PlayClick

PauseButton == ControlsEnabled /\ PauseClick

StopButton == ControlsEnabled /\ StopClick

\* A step of RunEffects, told by the entry it leaves in the history.  While
\* a render is pending nothing but RunEffects is enabled, and a chain of
\* renders ends (each one starts an analysis or moves the marker one page
\* on), so weak fairness of this step says what weak fairness of RunEffects
\* says: a render that is due takes place.
RenderStep ==
    /\ ~crashed
    /\ renderPending
    /\ \E op \in {"RunEffects", "Append"}, w \in BOOLEAN :
          lastOp' = [op |-> op, wasPlaying |-> w]

AppLiveNext ==
    \/ RunEffects
    \/ AudioLoaded
    \/ \E n \in 1..MaxPages : FilesSelected(n)
    \/ \E id \in inflight, a \in 1..Len(Analyses) : AnalysisSuccess(id, a)
    \/ \E id \in inflight : AnalysisFailure(id)
    \/ PlayButton
    \/ PauseButton
    \/ PlayResume
    \/ StopButton
    \/ NextPage
    \/ PrevPage
    \/ \E idx \in 0..(MaxPages - 1) : TabClick(idx)
    \/ ClearAll
    \/ \E v \in SliderTempos : TempoChange(v)
    \/ TransportFire
    \/ DrawFire

AppLiveSpec == Init /\ [][AppLiveNext]_vars /\ WF_lastOp(RenderStep)

\* --------------------------------------------------- the scheduler alone
\* AudioService called directly: groupNotesByColumn, the step duration and
\* schedulePage, on the systems and pages a caller can hand to them.
Xs == {100, 110, 120, 500}
Durations == {"1n", "16n", "0", "xx"}
Tempi == {40, 100, 200}
StartTimes == {0, 7000}

TestNotes == [pitch : {"C4"}, duration : Durations, x : Xs]
NoteLists == UNION { [1..n -> TestNotes] : n \in 0..MaxNotes }

\* A second system for the pages of two systems.
SecondSystem == [notes |-> << Note("C4", "4n", 300), Note("D4", "16n", 305) >>]

\* The same system further to the left on the page.
SecondSystemLeft == [notes |-> << Note("C4", "4n", 105), Note("D4", "16n", 110) >>]

SystemLists ==
    { << [notes |-> n] >> : n \in NoteLists } \cup
    { << [notes |-> n], s >> : n \in NoteLists, s \in {SecondSystem, SecondSystemLeft} }

\* Systems whose notes differ in pitch: well-formed pitches, lower case, a
\* flat, a letter and octave out of range, rests, a missing pitch.
Pitches == {"C4", "c4", "Bb4", "H9", "rest", ""}
PitchedNotes == [pitch : Pitches, duration : {"16n"}, x : {100, 500}]
PitchedLists == UNION { [1..n -> PitchedNotes] : n \in 1..MaxNotes }

\* Systems whose durations lie at the noise floor, above it, or do not parse.
FloorNotes == [pitch : {"C4"}, duration : {"0.01", "1n", "xx"}, x : {100, 110}]
FloorLists == UNION { [1..n -> FloorNotes] : n \in 1..MaxNotes }

\* SheetPage values of the App: analysis data is present on ready pages only.
TestPages ==
    { [id |-> 1, status |-> st, data |-> 0, errorMsg |-> ""] :
         st \in {"pending", "analyzing"} } \cup
    { [id |-> 1, status |-> "error", data |-> 0, errorMsg |-> "Analysis failed"] } \cup
    { [id |-> 1, status |-> "ready", data |-> a, errorMsg |-> ""] : a \in 1..Len(Analyses) }

SystemsArgs ==
    [kind : {"systems"}, systems : SystemLists, bpm : Tempi, startTime : StartTimes,
     page : {[id |-> 1, status |-> "ready", data |-> 1, errorMsg |-> ""]}, loaded : {TRUE}]

PitchedArgs ==
    [kind : {"systems"}, systems : { << [notes |-> n] >> : n \in PitchedLists \cup FloorLists },
     bpm : {100}, startTime : {0},
     page : {[id |-> 1, status |-> "ready", data |-> 1, errorMsg |-> ""]}, loaded : {TRUE}]

PageArgs ==
    [kind : {"page"}, systems : {<< >>}, bpm : Tempi, startTime : StartTimes,
     page : TestPages, loaded : BOOLEAN]

SchedulerInit ==
    /\ arg \in SystemsArgs \cup PitchedArgs \cup PageArgs
    /\ ret = NoReturn
    /\ pages = << >>
    /\ currentPageIndex = 0
    /\ isPlaying = FALSE
    /\ playingRef = FALSE
    /\ currentSystemIndex = -1
    /\ currentNoteIndex = -1
    /\ tempo = arg.bpm
    /\ isAudioReady = arg.loaded
    /\ scheduledUpToPageId = NoId
    /\ isLoaded = arg.loaded
    /\ pageEndTimes = << >>
    /\ bpm = arg.bpm
    /\ transportState = "stopped"
    /\ position = 0
    /\ timeline = << >>
    /\ drawQueue = << >>
    /\ inflight = {}
    /\ pendingPlays = << >>
    /\ nextId = 0
    /\ crashed = FALSE
    /\ renderPending = FALSE
    /\ schedLog = << >>
    /\ lastOp = [op |-> "Init", wasPlaying |-> FALSE]

\* The columns of system k of the examined systems.
ColumnsOf(k) == groupNotesByColumn(WithIndex(arg.systems[k].notes))

\* this.groupNotesByColumn(notesWithIndex) for system k.
GroupCall(k) ==
    /\ ret.op = "none"
    /\ Set([Cur EXCEPT !.ret = [op |-> "group", sys |-> k, columns |-> ColumnsOf(k)]])

StepResult(k, c, columns) ==
    [op |-> "step", sys |-> k, col |-> c, columns |-> columns,
     audio |-> minAudioDuration(columns[c], bpm),
     value |-> stepDuration(columns, c, bpm)]

\* The step duration schedulePage computes for column c of system k.
StepCall(k, c) ==
    /\ ret.op = "none"
    /\ c <= Len(ColumnsOf(k))
    /\ Set([Cur EXCEPT !.ret = StepResult(k, c, ColumnsOf(k))])

SystemsResult(r) == [op |-> "systems", events |-> r.events, value |-> r.currentTime]

\* The body of schedulePage past its guard, on the examined systems.
SystemsCall ==
    /\ ret.op = "none"
    /\ arg.kind = "systems"
    /\ Set([Cur EXCEPT !.ret = SystemsResult(
               ScheduleSystems(arg.page.id, arg.systems, 1,
                               [events |-> << >>, currentTime |-> arg.startTime], bpm))])

FireResult(k, e) ==
    [op |-> "fire", events |-> ret.events, value |-> ret.value, event |-> k,
     sounds |-> Sounds(e, bpm), cursor |-> CursorOf(e)]

\* The Transport reaches event k of the registered events: its callback
\* triggers the sampler and schedules the cursor callback.
FireCall(k) ==
    /\ ret.op = "systems"
    /\ k <= Len(ret.events)
    /\ Set([Cur EXCEPT !.ret = FireResult(k, ret.events[k])])

PageResult(r) == [r.s EXCEPT !.ret = [op |-> "page", value |-> r.ret]]

\* schedulePage(page, startTime, cb) on the examined page.
PageCall ==
    /\ ret.op = "none"
    /\ arg.kind = "page"
    /\ Set(PageResult(schedulePage(Cur, arg.page, arg.startTime,
                                   [caller |-> "direct", index |-> 0])))

SchedulerNext ==
    \/ \E k \in 1..Len(arg.systems) : GroupCall(k)
    \/ \E k \in 1..Len(arg.systems), c \in 1..MaxNotes : StepCall(k, c)
    \/ SystemsCall
    \/ \E k \in 1..(2 * MaxNotes) : FireCall(k)
    \/ PageCall

SchedulerSpec == SchedulerInit /\ [][SchedulerNext]_vars

\* ----------------------------------------------------------------- claims
Last(seq) == seq[Len(seq)]

\* The page after the last-scheduled one is ready while Playing (indices
\* from 0): the case of the dynamic append.
NextIsReady ==
    /\ isPlaying
    /\ scheduledUpToPageId # NoId
    /\ findIndex(pages, scheduledUpToPageId) # -1
    /\ IsReady(pages, findIndex(pages, scheduledUpToPageId) + 1)

NextIndex == findIndex(pages, scheduledUpToPageId) + 1

\* C1: while Playing, whenever the page right after the last-scheduled page
\* is ready, the dynamic-append step is the next thing to happen, and it
\* schedules that page from the recorded end time of the last-scheduled
\* page, moves the marker to it and keeps every event already on the
\* timeline as it was.
C1_DynamicAppend ==
    /\ [](NextIsReady => renderPending /\ ~crashed)
    /\ [][NextIsReady =>
            /\ scheduledUpToPageId \in DOMAIN pageEndTimes
            /\ scheduledUpToPageId' = pages[NextIndex + 1].id
            /\ Len(schedLog') = Len(schedLog) + 1
            /\ Last(schedLog').pageId = pages[NextIndex + 1].id
            /\ Last(schedLog').startTime = pageEndTimes[scheduledUpToPageId]
            /\ Last(schedLog').by = "append"
            /\ SubSeq(schedLog', 1, Len(schedLog)) = schedLog
            /\ Len(timeline') >= Len(timeline)
            /\ SubSeq(timeline', 1, Len(timeline)) = timeline
            /\ \A k \in (Len(timeline) + 1)..Len(timeline') :
                  /\ timeline'[k].pageId = pages[NextIndex + 1].id
                  /\ timeline'[k].time >= pageEndTimes[scheduledUpToPageId]
            /\ Len(timeline') > Len(timeline) =>
                  timeline'[Len(timeline) + 1].time = pageEndTimes[scheduledUpToPageId]
            /\ isPlaying' /\ transportState' = transportState /\ position' = position
       ]_vars

\* A dynamic append has just put a page with events behind events of an
\* earlier page.
C1_Witness ==
    /\ lastOp.op = "Append"
    /\ Len(schedLog) >= 2
    /\ Last(schedLog).by = "append"
    /\ \E j, k \in 1..Len(timeline) :
          /\ j < k
          /\ timeline[j].pageId = schedLog[Len(schedLog) - 1].pageId
          /\ timeline[k].pageId = Last(schedLog).pageId

\* C2: the pages scheduled since the timeline was last cleared are a
\* gap-free run of consecutive page indices in ascending order, beginning
\* (when Play schedules) at the page that was active where Play was asked
\* for, and every one of them that is in the list is ready there.
C2_GapFreeRun ==
    /\ [](/\ \A k \in 1..(Len(schedLog) - 1) : schedLog[k + 1].index = schedLog[k].index + 1
          /\ \A k \in 1..Len(schedLog) :
                findIndex(pages, schedLog[k].pageId) # -1 =>
                   /\ findIndex(pages, schedLog[k].pageId) = schedLog[k].index
                   /\ IsReady(pages, schedLog[k].index)
          /\ isPlaying /\ scheduledUpToPageId # NoId =>
                /\ schedLog # << >>
                /\ Last(schedLog).pageId = scheduledUpToPageId)
    /\ [][(/\ pendingPlays # << >>
           /\ pendingPlays' = Tail(pendingPlays)
           /\ IsReady(Head(pendingPlays).pages, Head(pendingPlays).currentPageIndex))
          => /\ schedLog' # << >>
             /\ schedLog'[1].index = Head(pendingPlays).currentPageIndex
             /\ schedLog'[1].pageId =
                   Head(pendingPlays).pages[Head(pendingPlays).currentPageIndex + 1].id
       ]_vars

\* A session that has scheduled three pages, the last of them by a dynamic
\* append, while a page of the list was not ready when Play ran.
C2_Witness ==
    /\ isPlaying
    /\ Len(schedLog) = 3
    /\ schedLog[1].by = "play"
    /\ schedLog[3].by = "append"
    /\ \A k \in 1..3 : findIndex(pages, schedLog[k].pageId) = k - 1

\* The Draw callback at the head of the queue runs in this step.
DrawFires == Idle /\ drawQueue # << >> /\ drawQueue' = Tail(drawQueue)

\* C3: after Stop has returned, no cursor callback registered before that
\* Stop changes the cursor or the displayed page.
C3_NoOrphanCallback ==
    [][DrawFires /\ Head(drawQueue).orphan =>
          /\ currentSystemIndex' = currentSystemIndex
          /\ currentNoteIndex' = currentNoteIndex
          /\ currentPageIndex' = currentPageIndex]_vars

StopOps == {"StopClick", "PauseClick"}

\* C4: Stop, from any state, leaves the session not playing, the timeline
\* empty, the page end times cleared, the marker unset and the cursor at
\* (-1, -1).
C4_StopClears ==
    lastOp.op \in StopOps =>
        /\ ~isPlaying
        /\ ~playingRef
        /\ transportState = "stopped"
        /\ timeline = << >>
        /\ pageEndTimes = << >>
        /\ scheduledUpToPageId = NoId
        /\ currentSystemIndex = -1
        /\ currentNoteIndex = -1

\* Stop has just acted on a playing session.
C4_Witness == lastOp.op = "StopClick" /\ lastOp.wasPlaying

\* C5: Stop is idempotent: from any state two Stops in a row end where one
\* Stop ends, and in the state a Stop has left another Stop changes nothing.
C5_StopIdempotent ==
    /\ handleStop(handleStop(Cur)) = handleStop(Cur)
    /\ lastOp.op \in StopOps => handleStop(Cur) = Cur

\* Stop has just acted on a playing session whose cursor callback was waiting.
C5_Witness == lastOp.op = "StopClick" /\ lastOp.wasPlaying /\ drawQueue # << >>

\* C6: a pause request while Playing suspends the clock and keeps every
\* scheduled event registered.
C6_PauseKeepsTimeline ==
    [][lastOp'.op = "PauseClick" =>
          /\ transportState' = "paused"
          /\ timeline' = timeline
          /\ pageEndTimes' = pageEndTimes]_vars

\* C7: Play whose active page is not ready (no such page, pending,
\* analyzing, error, or without data) changes nothing: what was not playing
\* stays not playing, with an empty timeline and no marker.
C7_PlayRefused ==
    [][(/\ pendingPlays # << >>
        /\ pendingPlays' = Tail(pendingPlays)
        /\ ~(/\ HasPage(Head(pendingPlays).pages, Head(pendingPlays).currentPageIndex)
             /\ Head(pendingPlays).pages[Head(pendingPlays).currentPageIndex + 1].status = "ready"
             /\ Head(pendingPlays).pages[Head(pendingPlays).currentPageIndex + 1].data # 0))
       => /\ UNCHANGED << pages, currentPageIndex, isPlaying, playingRef,
                          currentSystemIndex, currentNoteIndex, tempo, isAudioReady,
                          scheduledUpToPageId, isLoaded, pageEndTimes, bpm,
                          transportState, position, timeline, drawQueue, inflight,
                          nextId, crashed, renderPending, schedLog, arg, ret >>
          /\ ~isPlaying => ~isPlaying' /\ timeline' = << >> /\ scheduledUpToPageId' = NoId
      ]_vars

\* A Play was refused while the active page was being analyzed.
C7_Witness ==
    /\ lastOp.op = "PlayRefused"
    /\ HasPage(pages, currentPageIndex)
    /\ pages[currentPageIndex + 1].status = "analyzing"
    /\ ~isPlaying

\* The largest j >= i with pages i..j of ps all ready (indices from 0).
LastOfReadyRun(ps, i) ==
    CHOOSE j \in i..(Len(ps) - 1) :
        /\ \A k \in i..j : IsReady(ps, k)
        /\ j + 1 <= Len(ps) - 1 => ~IsReady(ps, j + 1)

\* C8: Play with a ready active page at index i schedules exactly the pages
\* i..j, j the largest index with i..j all ready, the first from 0 and each
\* other from the end time returned for the page before it, and sets the
\* marker to page j.
C8_PlaySchedulesRun ==
    [][(/\ pendingPlays # << >>
        /\ pendingPlays' = Tail(pendingPlays)
        /\ IsReady(Head(pendingPlays).pages, Head(pendingPlays).currentPageIndex))
       => LET ps == Head(pendingPlays).pages
              i  == Head(pendingPlays).currentPageIndex
              j  == LastOfReadyRun(ps, i)
          IN  /\ isPlaying' /\ playingRef' /\ transportState' = "started" /\ position' = 0
              /\ Len(schedLog') = j - i + 1
              /\ \A k \in 1..(j - i + 1) :
                    /\ schedLog'[k].pageId = ps[i + k].id
                    /\ schedLog'[k].by = "play"
                    /\ schedLog'[k].startTime = IF k = 1 THEN 0 ELSE schedLog'[k - 1].endTime
                    /\ pageEndTimes'[ps[i + k].id] = schedLog'[k].endTime
              /\ \A e \in 1..Len(timeline') :
                    \E k \in 1..(j - i + 1) :
                       /\ timeline'[e].pageId = ps[i + k].id
                       /\ timeline'[e].time >= schedLog'[k].startTime
              /\ scheduledUpToPageId' = ps[j + 1].id
      ]_vars

\* Play has just scheduled two pages and stopped at a third that was not ready.
C8_Witness ==
    /\ lastOp.op = "PlayResume"
    /\ Len(schedLog) = 2
    /\ Len(pages) = 3
    /\ schedLog[1].index = 0
    /\ pages[3].status # "ready"
    /\ timeline # << >>

\* C9: when a page is scheduled from the end time returned for the page
\* before it, none of its events begins before that end time, and every
\* event of the page before it begins before that end time.
C9_Chaining ==
    \A k \in 1..(Len(schedLog) - 1) :
        /\ schedLog[k + 1].startTime = schedLog[k].endTime
        /\ \A e \in 1..Len(timeline) :
              /\ timeline[e].pageId = schedLog[k + 1].pageId =>
                    timeline[e].time >= schedLog[k].endTime
              /\ timeline[e].pageId = schedLog[k].pageId =>
                    timeline[e].time < schedLog[k].endTime

\* Two pages with columns are chained on the timeline.
C9_Witness ==
    /\ Len(schedLog) >= 2
    /\ \E a, b \in 1..Len(timeline) :
          /\ timeline[a].pageId = schedLog[1].pageId
          /\ timeline[b].pageId = schedLog[2].pageId

\* The session without the history of the step taken.
Session(s) == [s EXCEPT !.lastOp = [op |-> "", wasPlaying |-> FALSE], !.renderPending = FALSE]

\* Stop followed by setting the active page index to N.
StopThenSet(N) == Session([handleStop(Cur) EXCEPT !.currentPageIndex = N])

\* The state after the step, as a record.
CurNext ==
    [pages |-> pages', currentPageIndex |-> currentPageIndex', isPlaying |-> isPlaying',
     playingRef |-> playingRef', currentSystemIndex |-> currentSystemIndex',
     currentNoteIndex |-> currentNoteIndex', tempo |-> tempo',
     isAudioReady |-> isAudioReady', scheduledUpToPageId |-> scheduledUpToPageId',
     isLoaded |-> isLoaded', pageEndTimes |-> pageEndTimes', bpm |-> bpm',
     transportState |-> transportState', position |-> position', timeline |-> timeline',
     drawQueue |-> drawQueue', inflight |-> inflight', pendingPlays |-> pendingPlays',
     nextId |-> nextId', crashed |-> crashed', renderPending |-> renderPending',
     schedLog |-> schedLog', lastOp |-> lastOp', arg |-> arg', ret |-> ret']

\* C10: seeking to page N (page tab, next page, previous page) ends in the
\* state Stop followed by setting the active page to N ends in, not
\* playing; and only a Play makes the session play again.
C10_Seek ==
    /\ [][\A N \in 0..(Len(pages) - 1) :
            (\/ TabClick(N)
             \/ NextPage /\ N = currentPageIndex + 1
             \/ PrevPage /\ N = currentPageIndex - 1)
            => /\ Session(CurNext) = StopThenSet(N)
               /\ ~isPlaying' /\ currentPageIndex' = N /\ timeline' = << >>
               /\ scheduledUpToPageId' = NoId
               /\ currentSystemIndex' = -1 /\ currentNoteIndex' = -1]_vars
    /\ [][~isPlaying /\ isPlaying' =>
            pendingPlays # << >> /\ pendingPlays' = Tail(pendingPlays)]_vars

\* A page tab has just been used on a playing session to go to another page.
C10_Witness ==
    /\ lastOp.op = "TabClick"
    /\ lastOp.wasPlaying
    /\ currentPageIndex = 1
    /\ ~isPlaying

\* C11: a cursor event (pageId, systemIndex, noteIndex) delivered while
\* Playing sets the cursor to (systemIndex, noteIndex); when pageId is the
\* id of a page of the list at another index than the displayed one, the
\* displayed page index becomes that index, and otherwise it stays.
C11_CursorEvent ==
    /\ [](isPlaying = playingRef)
    /\ [][DrawFires /\ isPlaying =>
            /\ currentSystemIndex' = Head(drawQueue).sysIdx
            /\ currentNoteIndex' = Head(drawQueue).noteIdx
            /\ currentPageIndex' =
                  IF \E i \in 1..Len(pages) :
                        pages[i].id = Head(drawQueue).pageId /\ i - 1 # currentPageIndex
                  THEN findIndex(pages, Head(drawQueue).pageId)
                  ELSE currentPageIndex
            /\ pages' = pages /\ isPlaying' /\ timeline' = timeline
       ]_vars

\* A cursor event of the second page has moved the display on from the
\* first page, where the playback began.
C11_Witness ==
    /\ lastOp.op = "DrawFire"
    /\ lastOp.wasPlaying
    /\ isPlaying
    /\ schedLog # << >>
    /\ schedLog[1].index = 0
    /\ currentPageIndex = 1
    /\ currentSystemIndex = 0
    /\ currentNoteIndex = 0

\* The pages of the list being analyzed (indices from 1).
AnalyzingPages == { i \in 1..Len(pages) : pages[i].status = "analyzing" }

\* C12: in every reachable state at most one page of the list has status
\* analyzing.
C12_OneAnalysis == Cardinality(AnalyzingPages) <= 1

\* One page is being analyzed while another waits and a third is done.
C12_Witness ==
    /\ Cardinality(AnalyzingPages) = 1
    /\ \E i, j \in 1..Len(pages) : pages[i].status = "pending" /\ pages[j].status = "ready"

\* The moves of a page's status in one step.
StatusMoves ==
    { << "pending", "analyzing" >>, << "analyzing", "ready" >>, << "analyzing", "error" >> }

\* C14: a page's status only moves pending -> analyzing -> ready or
\* pending -> analyzing -> error, a new page is pending, ready and error are
\* never left, and in every state a page has analysis data iff it is ready.
C14_PageLifecycle ==
    /\ [](\A i \in 1..Len(pages) :
             /\ pages[i].status \in {"pending", "analyzing", "ready", "error"}
             /\ pages[i].data # 0 <=> pages[i].status = "ready")
    /\ [][\A i \in 1..Len(pages') :
             IF i <= Len(pages) /\ pages[i].id = pages'[i].id
             THEN \/ pages'[i].status = pages[i].status
                  \/ << pages[i].status, pages'[i].status >> \in StatusMoves
             ELSE pages'[i].status = "pending"
       ]_vars

\* The list holds a ready page and an error page side by side.
C14_Witness ==
    \E i, j \in 1..Len(pages) :
        /\ pages[i].status = "ready" /\ pages[i].data # 0
        /\ pages[j].status = "error" /\ pages[j].data = 0

\* C15: when the recognition fails for a page of the list, the page's
\* status becomes error with a message; no page with status error is on the
\* timeline or behind the last-scheduled marker; and while the App is at
\* rest with a page pending, some page is being analyzed.
C15_RecognitionFailure ==
    /\ [][\A id \in inflight :
             (lastOp'.op = "AnalysisFailure" /\ id \notin inflight') =>
                \A i \in 1..Len(pages) :
                   pages[i].id = id =>
                      /\ pages'[i].status = "error"
                      /\ pages'[i].errorMsg # ""
       ]_vars
    /\ [](\A i \in 1..Len(pages) :
             pages[i].status = "error" =>
                /\ \A k \in 1..Len(schedLog) : schedLog[k].pageId # pages[i].id
                /\ \A k \in 1..Len(timeline) : timeline[k].pageId # pages[i].id
                /\ scheduledUpToPageId # pages[i].id)
    /\ []((Idle /\ \E i \in 1..Len(pages) : pages[i].status = "pending")
             => AnalyzingPages # {})

\* Playback stops short of an error page: the page before it was scheduled,
\* the error page was not, and a later page is being analyzed.
C15_Witness ==
    /\ isPlaying
    /\ Len(pages) = 3
    /\ pages[1].status = "ready"
    /\ pages[2].status = "error"
    /\ pages[2].errorMsg # ""
    /\ pages[3].status = "analyzing"
    /\ Len(schedLog) = 1

\* A page is pending (index from 0).
IsPending(i) == HasPage(pages, i) /\ pages[i + 1].status = "pending"

\* The pending page of the lowest index (from 0).
FirstPending == CHOOSE i \in 0..(Len(pages) - 1) : IsPending(i) /\ \A j \in 0..(i - 1) : ~IsPending(j)

\* The pages a step turns to analyzing (indices from 0).
Picked == { i \in 0..(Len(pages) - 1) :
              /\ i < Len(pages')
              /\ pages'[i + 1].id = pages[i + 1].id
              /\ pages[i + 1].status # "analyzing"
              /\ pages'[i + 1].status = "analyzing" }

\* C13: whenever the analysis queue picks a page, the page was pending, and
\* it is the current page if that one is pending, otherwise the page at the
\* current index + 1 if that one is pending, otherwise the pending page of
\* the lowest index; and it picks one page at a time.
C13_QueuePriority ==
    [][\A i \in Picked :
          /\ IsPending(i)
          /\ Picked = {i}
          /\ i = IF IsPending(currentPageIndex) THEN currentPageIndex
                 ELSE IF IsPending(currentPageIndex + 1) THEN currentPageIndex + 1
                 ELSE FirstPending
       ]_vars

\* The queue has picked the page after the current one although a page
\* before the current one is still pending.
C13_Witness ==
    /\ Len(pages) = 4
    /\ currentPageIndex = 2
    /\ pages[1].status = "ready"
    /\ pages[2].status = "pending"
    /\ pages[3].status \in {"ready", "error"}
    /\ pages[4].status = "analyzing"

\* C16: schedulePage called on a page whose status is not ready registers
\* no event, records no end time for the page and returns startTime.
C16_NotReadyNoOp ==
    (ret.op = "page" /\ arg.page.status # "ready") =>
        /\ ret.value = arg.startTime
        /\ timeline = << >>
        /\ drawQueue = << >>
        /\ pageEndTimes = << >>
        /\ transportState = "stopped"
        /\ ~crashed

\* schedulePage has been called on an error page, with the samples loaded
\* and a start time other than 0.
C16_Witness ==
    /\ ret.op = "page"
    /\ arg.page.status = "error"
    /\ arg.loaded
    /\ arg.startTime = 7000

\* The notes of the columns, as the set of their (column, place) positions.
Places(columns) == { << c, k >> : c \in 1..Len(columns), k \in 1..MaxNotes }

Placed(columns) == { pl \in Places(columns) : pl[2] <= Len(columns[pl[1]]) }

\* The notes handed to the GroupCall.
GroupInput == WithIndex(arg.systems[ret.sys].notes)

\* C17: groupNotesByColumn returns non-empty columns whose anchors are in
\* ascending x order and whose notes are exactly the input notes, each once;
\* no notes give no columns, one note gives one column of that note.
C17_GroupPartition ==
    ret.op = "group" =>
        /\ \A c \in 1..Len(ret.columns) : Len(ret.columns[c]) >= 1
        /\ \A c \in 1..(Len(ret.columns) - 1) :
              ret.columns[c][1].x <= ret.columns[c + 1][1].x
        /\ { ret.columns[pl[1]][pl[2]] : pl \in Placed(ret.columns) }
              = { GroupInput[i] : i \in 1..Len(GroupInput) }
        /\ Cardinality(Placed(ret.columns)) = Len(GroupInput)
        /\ Len(GroupInput) = 0 => ret.columns = << >>
        /\ Len(GroupInput) = 1 => ret.columns = << << GroupInput[1] >> >>

\* Three notes given out of x order have been grouped into two columns.
C17_Witness ==
    /\ ret.op = "group"
    /\ Len(GroupInput) = 3
    /\ GroupInput[1].x = 500
    /\ GroupInput[2].x = 110
    /\ GroupInput[3].x = 100
    /\ Len(ret.columns) = 2

\* The x positions of the notes of a column.
XsOf(column) == [k \in 1..Len(column) |-> column[k].x]

\* C18: every note of a column is within X_THRESHOLD of the column's
\* anchor, the first note placed in it, and the anchor of each later column
\* is more than X_THRESHOLD to the right of the anchor before it; notes at
\* x = 0.10, 0.11, 0.50 give the columns {0.10, 0.11} and {0.50}.
C18_AnchorThreshold ==
    ret.op = "group" =>
        /\ \A pl \in Placed(ret.columns) :
              Abs(ret.columns[pl[1]][pl[2]].x - ret.columns[pl[1]][1].x) <= X_THRESHOLD
        /\ \A c \in 1..(Len(ret.columns) - 1) :
              ret.columns[c + 1][1].x - ret.columns[c][1].x > X_THRESHOLD
        /\ XsOf(GroupInput) = << 100, 110, 500 >> =>
              /\ Len(ret.columns) = 2
              /\ XsOf(ret.columns[1]) = << 100, 110 >>
              /\ XsOf(ret.columns[2]) = << 500 >>

\* Notes each within the threshold of the one before, but the third beyond
\* it from the first, have been split after the second.
C18_Witness ==
    /\ ret.op = "group"
    /\ XsOf(GroupInput) = << 100, 110, 120 >>
    /\ Len(ret.columns) = 2
    /\ XsOf(ret.columns[1]) = << 100, 110 >>

\* C19: the step duration of every column is positive and at least the
\* floor of 0.1 s, whatever the members' durations (valid, unparseable,
\* below the noise floor), the tempo, and with or without a next column.
C19_StepFloor ==
    ret.op = "step" => ret.value > 0 /\ ret.value >= MinStep

\* The step of a last column whose two notes are one unparseable and one
\* below the noise floor has been computed at the fastest tempo.
C19_Witness ==
    /\ ret.op = "step"
    /\ bpm = 200
    /\ ret.col = Len(ret.columns)
    /\ Len(ret.columns[ret.col]) = 2
    /\ ret.columns[ret.col][1].duration = "xx"
    /\ ret.columns[ret.col][2].duration = "0"
    /\ ret.value = ToSeconds("8n", bpm)

\* The sum of the step durations of the columns from c on.
RECURSIVE SumSteps(_, _, _)
SumSteps(columns, c, b) ==
    IF c > Len(columns) THEN 0
    ELSE stepDuration(columns, c, b) + SumSteps(columns, c + 1, b)

\* The sum of the step durations of all columns of the systems from k on.
RECURSIVE SumSystems(_, _, _)
SumSystems(systems, k, b) ==
    IF k > Len(systems) THEN 0
    ELSE SumSteps(groupNotesByColumn(WithIndex(systems[k].notes)), 1, b)
            + SumSystems(systems, k + 1, b)

\* C20: the end time schedulePage returns is at least startTime, and it is
\* startTime plus the sum of the step durations of all columns of all
\* systems of the page.
C20_Monotonic ==
    /\ ret.op = "systems" =>
          /\ ret.value >= arg.startTime
          /\ ret.value = arg.startTime + SumSystems(arg.systems, 1, bpm)
    /\ ret.op = "page" => ret.value >= arg.startTime
    /\ (ret.op = "page" /\ arg.loaded /\ arg.page.data # 0) =>
          ret.value = arg.startTime + SumSystems(Analyses[arg.page.data].systems, 1, bpm)

\* A page of two systems with several columns has been scheduled from a
\* start time other than 0.
C20_Witness ==
    /\ ret.op = "systems"
    /\ arg.startTime = 7000
    /\ Len(arg.systems) = 2
    /\ Len(ret.events) = 3
    /\ ret.value > arg.startTime

\* C21: schedulePage called on a ready page whose analysis holds no system
\* returns startTime and registers no sound trigger and no cursor event.
C21_EmptyPage ==
    (ret.op = "page" /\ arg.page.status = "ready"
        /\ Len(Analyses[arg.page.data].systems) = 0) =>
        /\ ret.value = arg.startTime
        /\ timeline = << >>
        /\ drawQueue = << >>
        /\ arg.loaded => /\ pageEndTimes = (arg.page.id :> arg.startTime)
                         /\ Len(schedLog) = 1
                         /\ schedLog[1].endTime = arg.startTime
        /\ ~crashed

\* schedulePage went through its body on the ready page without systems,
\* from a start time other than 0.
C21_Witness ==
    /\ ret.op = "page"
    /\ arg.page.status = "ready"
    /\ Len(Analyses[arg.page.data].systems) = 0
    /\ arg.loaded
    /\ arg.startTime = 7000
    /\ Len(schedLog) = 1

\* The columns of all the examined systems, in scheduling order, each with
\* the index of its system (from 0).
RECURSIVE AllColumns(_)
AllColumns(k) ==
    IF k > Len(arg.systems) THEN << >>
    ELSE [c \in 1..Len(ColumnsOf(k)) |-> [sysIdx |-> k - 1, column |-> ColumnsOf(k)[c]]]
            \o AllColumns(k + 1)

EventMatches(e, col) ==
    /\ e.pageId = arg.page.id
    /\ e.sysIdx = col.sysIdx
    /\ e.notes = col.column
    /\ e.noteIdx = col.column[1].originalIndex

EventsMatch(events, cols) ==
    /\ Len(events) = Len(cols)
    /\ \A i \in 1..Len(cols) : EventMatches(events[i], cols[i])

\* C22: schedulePage registers exactly one cursor callback per column; it
\* carries the page id, the system index and the original index of the
\* column's first member note, and fires at the onset time of the column's
\* sound triggers.
C22_CursorPerColumn ==
    /\ ret.op \in {"systems", "fire"} => EventsMatch(ret.events, AllColumns(1))
    /\ ret.op = "fire" =>
          /\ ret.cursor.pageId = arg.page.id
          /\ ret.cursor.sysIdx = ret.events[ret.event].sysIdx
          /\ ret.cursor.noteIdx = ret.events[ret.event].notes[1].originalIndex
          /\ ret.cursor.time = ret.events[ret.event].time
          /\ \A k \in 1..Len(ret.sounds) : ret.sounds[k].time = ret.cursor.time

\* The event of a column of two sounding notes fires, the first of them
\* being the last note of the system's list, on a page of two systems.
C22_Witness ==
    /\ ret.op = "fire"
    /\ Len(arg.systems) = 2
    /\ Len(ret.events) = 3
    /\ ret.event = 1
    /\ ret.cursor.sysIdx = 0
    /\ ret.cursor.noteIdx = 2
    /\ Len(ret.sounds) = 2
    /\ ret.cursor.time = 7000

\* The member notes of event e that must stay silent: the normalized pitch
\* is the rest sentinel or is not a letter A-G, an optional accidental and
\* an octave 0-8.
SilentNotes(e) ==
    { i \in 1..Len(e.notes) :
         \/ NormalizePitch(e.notes[i].pitch) = "REST"
         \/ NormalizePitch(e.notes[i].pitch) \notin PitchPattern }

\* The time at which the timeline goes on after event k.
TimeAfter(events, k, endTime) == IF k < Len(events) THEN events[k + 1].time ELSE endTime

\* C23: no sound is triggered for a note whose normalized pitch is the rest
\* sentinel or is malformed (such as "H9"); the note still occupies its
\* column, the column's cursor callback is still registered and the
\* timeline still advances by the column's step duration, without error.
C23_SilentNotes ==
    ret.op = "fire" =>
        /\ \A i \in SilentNotes(ret.events[ret.event]) :
              \A k \in 1..Len(ret.sounds) :
                 ret.sounds[k].noteIdx # ret.events[ret.event].notes[i].originalIndex
        /\ Len(ret.sounds) = Len(ret.events[ret.event].notes)
                                - Cardinality(SilentNotes(ret.events[ret.event]))
        /\ EventsMatch(ret.events, AllColumns(1))
        /\ ret.cursor.noteIdx = ret.events[ret.event].notes[1].originalIndex
        /\ ret.events[ret.event].step >= MinStep
        /\ TimeAfter(ret.events, ret.event, ret.value)
              = ret.events[ret.event].time + ret.events[ret.event].step
        /\ ~crashed

\* The event of a column fires whose only notes are "H9" and a rest, "H9"
\* being the note the cursor callback reports; a column follows it.
C23_Witness ==
    /\ ret.op = "fire"
    /\ ret.event = 1
    /\ Len(ret.events) = 2
    /\ Len(ret.events[1].notes) = 2
    /\ ret.events[1].notes[1].pitch = "H9"
    /\ ret.events[1].notes[2].pitch = "rest"
    /\ ret.sounds = << >>
    /\ ret.cursor.noteIdx = ret.events[1].notes[1].originalIndex
    /\ ret.events[2].time = ret.events[1].time + ret.events[1].step

\* The declared durations of a column's member notes in seconds at tempo b.
DeclaredSeconds(column, b) == { ToSeconds(column[i].duration, b) : i \in 1..Len(column) }

\* The least of the durations if there is one, else one eighth note.
LeastOrEighth(durations, b) ==
    IF durations = {} THEN SecondsPerBeat(b) \div 2
    ELSE CHOOSE d \in durations : \A other \in durations : d <= other

AnchorDistance(columns, c) == columns[c + 1][1].x - columns[c][1].x

\* x-distance times beats per width times seconds per beat times headroom.
VisualEstimate(dx, b) ==
    (dx * BeatsPerWidth * SecondsPerBeat(b) * HeadroomNum) \div (1000 * HeadroomDen)

\* C26: for a column followed by a column of its system, the step duration
\* is max(floor, min(audio estimate, visual estimate)), the visual estimate
\* being the x-distance to the next column's anchor times the beats per
\* width times the seconds per beat times the headroom; a column of one
\* whole note at 100 BPM whose visual estimate lies between the floor and
\* the four beats gets the visual estimate as its step.
C26_VisualCap ==
    (ret.op = "step" /\ ret.col < Len(ret.columns)) =>
        /\ ret.value = Max2(MinStep,
                            Min2(ret.audio,
                                 VisualEstimate(AnchorDistance(ret.columns, ret.col), bpm)))
        /\ (/\ bpm = 100
            /\ Len(ret.columns[ret.col]) = 1
            /\ ret.columns[ret.col][1].duration = "1n"
            /\ VisualEstimate(AnchorDistance(ret.columns, ret.col), bpm) >= MinStep
            /\ VisualEstimate(AnchorDistance(ret.columns, ret.col), bpm) < 4 * SecondsPerBeat(bpm))
           => /\ ret.value = VisualEstimate(AnchorDistance(ret.columns, ret.col), bpm)
              /\ ret.value < ret.audio
              /\ ret.audio = 4 * SecondsPerBeat(bpm)

\* The step of a whole-note column at 100 BPM whose next column lies 0.02
\* to its right: 0.288 s, against 2.4 s of audio.
C26_Witness ==
    /\ ret.op = "step"
    /\ bpm = 100
    /\ ret.col < Len(ret.columns)
    /\ Len(ret.columns[ret.col]) = 1
    /\ ret.columns[ret.col][1].duration = "1n"
    /\ AnchorDistance(ret.columns, ret.col) = 20
    /\ ret.audio = 24000
    /\ ret.value = 2880

\* C27: the step duration of the last column of a system, a system followed
\* by another system included, is max(floor, audio estimate): the visual
\* estimate takes no part in it, wherever the next system's first column is.
C27_LastColumn ==
    (ret.op = "step" /\ ret.col = Len(ret.columns)) =>
        ret.value = Max2(MinStep,
                         LeastOrEighth({ d \in DeclaredSeconds(ret.columns[ret.col], bpm) :
                                            d > NoiseFloor }, bpm))

\* The step of the last column of the first system, a whole note at 100 BPM,
\* on a page whose second system starts 0.005 to the right of that column.
C27_Witness ==
    /\ ret.op = "step"
    /\ bpm = 100
    /\ Len(arg.systems) = 2
    /\ ret.sys = 1
    /\ ret.col = Len(ret.columns)
    /\ Len(ret.columns[ret.col]) = 1
    /\ ret.columns[ret.col][1].duration = "1n"
    /\ arg.systems[2].notes[1].x - ret.columns[ret.col][1].x = 5
    /\ ret.value = 4 * SecondsPerBeat(bpm)

\* C28: a cursor callback that fires when its page id is not in the page
\* list, or when the session is not playing, leaves the displayed page
\* index, the cursor and the page list unchanged and raises no error.
C28_StaleCallback ==
    [][(DrawFires /\ (findIndex(pages, Head(drawQueue).pageId) = -1 \/ ~isPlaying)) =>
          /\ currentPageIndex' = currentPageIndex
          /\ currentSystemIndex' = currentSystemIndex
          /\ currentNoteIndex' = currentNoteIndex
          /\ pages' = pages
          /\ ~crashed'
      ]_vars

\* C29: the completion of an analysis changes the tempo only when it is the
\* analysis of the first page of the list, it carries a tempo, and the tempo
\* has not been set before (it is still the default); the tempo then becomes
\* the analysis's tempo.
C29_TempoAutoSet ==
    [][(lastOp'.op = "AnalysisSuccess" /\ tempo' # tempo) =>
          /\ tempo = DEFAULT_TEMPO
          /\ pages # << >>
          /\ pages[1].status = "analyzing"
          /\ pages'[1].status = "ready"
          /\ tempo' = Analyses[pages'[1].data].tempo
      ]_vars

\* C30: between a Play and the next Stop schedulePage is invoked at most
\* once for each page: no two of the calls made since the timeline was last
\* cleared, by Play or by the dynamic append, are for the same page.
C30_OncePerPage ==
    \A j, k \in 1..Len(schedLog) : j # k => schedLog[j].pageId # schedLog[k].pageId

\* A playing session whose Play scheduled one page and whose two other
\* pages were appended one by one as they became ready, a cursor event
\* having been delivered last.
C30_Witness ==
    /\ isPlaying
    /\ Len(schedLog) = 3
    /\ schedLog[1].by = "play"
    /\ schedLog[2].by = "append"
    /\ schedLog[3].by = "append"
    /\ lastOp.op = "DrawFire"

\* The events on the timeline that belong to page pid.
PageEvents(pid) == SelectSeq(timeline, LAMBDA ev : ev.pageId = pid)

\* What schedulePage registers and returns for the page data and the start
\* time of call e at tempo b.
ExpectedRun(e, b) ==
    ScheduleSystems(e.pageId, Analyses[e.data].systems, 1,
                    [events |-> << >>, currentTime |-> e.startTime], b)

SameRun(e, r) == e.endTime = r.currentTime /\ PageEvents(e.pageId) = r.events

C31_IdleCursor ==
    /\ ~isPlaying => /\ currentSystemIndex = -1
                     /\ currentNoteIndex = -1
                     /\ scheduledUpToPageId = NoId
    /\ (scheduledUpToPageId # NoId \/ currentSystemIndex >= 0 \/ currentNoteIndex >= 0)
          => isPlaying /\ playingRef

\* A cursor callback left over from a session that was stopped has run
\* while the session was not playing.
C31_Witness ==
    /\ lastOp.op = "DrawFire"
    /\ ~lastOp.wasPlaying
    /\ ~isPlaying
    /\ pages # << >>
    /\ currentSystemIndex = -1

\* C32: a Stop handled while an earlier Play still waits for the audio
\* context wins: when that Play has gone on as well, the session is not
\* playing, no event is scheduled and the marker is unset.
C32_StopWins ==
    [][(/\ lastOp.op = "StopClick"
        /\ ControlsEnabled
        /\ pendingPlays # << >>
        /\ pendingPlays' = Tail(pendingPlays))
       => /\ ~isPlaying'
          /\ ~playingRef'
          /\ timeline' = << >>
          /\ transportState' = "stopped"
          /\ scheduledUpToPageId' = NoId
      ]_vars

\* The status of the page of id in the list, "none" when it is not there.
StatusOf(id) ==
    IF findIndex(pages, id) = -1 THEN "none" ELSE pages[findIndex(pages, id) + 1].status

\* This step leaves the request of an analyzing page unanswered.
Unanswered(i) ==
    /\ pages[i].status = "analyzing"
    /\ pages[i].id \in inflight
    /\ pages[i].id \in inflight'

\* C33: when every analysis request resolves or rejects and the page list
\* is not cleared, every pending page reaches ready or error; and as long
\* as the request of an analyzing page is unanswered, that page stays
\* analyzing and no pending page leaves pending.
C33_QueueProgress ==
    /\ \A id \in 1..MaxLivePages :
          (StatusOf(id) = "pending") ~> (StatusOf(id) \in {"ready", "error"})
    /\ [][\A i \in 1..Len(pages) :
             Unanswered(i) =>
                /\ Len(pages') >= Len(pages)
                /\ pages'[i].status = "analyzing"
                /\ \A j \in 1..Len(pages) :
                      pages[j].status = "pending" => pages'[j].status = "pending"
       ]_vars

\* Three pages have all left pending, one of them by a failed analysis,
\* while the last page of the list was the current one.
C33_Witness ==
    /\ Len(pages) = 3
    /\ \A i \in 1..3 : pages[i].status \in {"ready", "error"}
    /\ pages[2].status = "error"
    /\ currentPageIndex = 2
    /\ inflight = {}
    /\ lastOp.op = "RunEffects"


\* All pages of a non-empty list are ready, with their analysis.
AllReady ==
    /\ pages # << >>
    /\ \A i \in 1..Len(pages) : pages[i].status = "ready" /\ pages[i].data # 0

\* C34: while the session stays Playing, a page that is ready and directly
\* follows the last-scheduled page is eventually scheduled (the marker
\* moves on from the page it was at), whenever that page became ready; and
\* once all pages are ready the marker eventually reaches the last page of
\* the list, unless the session stops or a page that is not ready is added.
C34_EventuallyScheduled ==
    /\ \A id \in 1..MaxIds :
          (isPlaying /\ NextIsReady /\ scheduledUpToPageId = id)
             ~> (~isPlaying \/ scheduledUpToPageId # id)
    /\ (isPlaying /\ AllReady)
          ~> (~isPlaying \/ ~AllReady \/ scheduledUpToPageId = Last(pages).id)

\* C34, where the code keeps it: the same, for a session whose
\* last-scheduled page is in the list.
C34_ListedMarkerReachesLast ==
    /\ \A id \in 1..MaxIds :
          (isPlaying /\ NextIsReady /\ scheduledUpToPageId = id)
             ~> (~isPlaying \/ scheduledUpToPageId # id)
    /\ (isPlaying /\ AllReady /\ findIndex(pages, scheduledUpToPageId) # -1)
          ~> (~isPlaying \/ ~AllReady \/ scheduledUpToPageId = Last(pages).id)

\* A session plays a page that is no longer in the list, beside a list
\* whose pages are all ready, after its renders have run.
C34_GhostPlayback ==
    /\ isPlaying
    /\ AllReady
    /\ Idle
    /\ scheduledUpToPageId # NoId
    /\ findIndex(pages, scheduledUpToPageId) = -1


\* The answer to the request of page id is handled in this step, and the
\* page is not in the list.
StaleAnswer(id) ==
    /\ id \in inflight
    /\ id \notin inflight'
    /\ lastOp'.op \in {"AnalysisSuccess", "AnalysisFailure"}
    /\ findIndex(pages, id) = -1

\* The page list, the tempo and the playback state stay as they are and
\* nothing throws.
NothingHappens ==
    /\ ~crashed'
    /\ UNCHANGED << pages, currentPageIndex, tempo, bpm, isPlaying, playingRef,
                    scheduledUpToPageId, currentSystemIndex, currentNoteIndex,
                    transportState, position, timeline, pageEndTimes >>

\* C35: an analysis answer, success or failure, for a page that Clear All
\* removed from the list while the request was in flight leaves the page
\* list, the tempo and the playback state unchanged and raises no error,
\* whether the list is empty or holds newly uploaded pages.
C35_StaleAnswerHarmless ==
    [][\A id \in 1..MaxIds : StaleAnswer(id) => NothingHappens]_vars

\* C35, where the code keeps it: a failure, or an answer that finds pages
\* in the list.
C35_StaleAnswerBesidePages ==
    [][\A id \in 1..MaxIds :
          StaleAnswer(id) /\ (pages # << >> \/ lastOp'.op = "AnalysisFailure")
             => NothingHappens]_vars

\* A success answered to an empty list has thrown.
C35_ThrownOnEmptyList ==
    /\ crashed
    /\ pages = << >>
    /\ lastOp.op = "AnalysisSuccess"


=============================================================================
